---------------------------- MODULE Spec2Model ----------------------------
(***************************************************************************)
(* A model of pypi2deb's debianize pipeline (src/pypi2deb/debianize.py):   *)
(* the context builder, the layered override resolver, the static-file     *)
(* materializer and the section generators, run in the order debianize()   *)
(* calls them.                                                             *)
(*                                                                         *)
(* Text is a sequence of tokens.  A token is one character ("m", ".", "/") *)
(* or a word that nothing else in the model overlaps ("UNRELEASED",        *)
(* "setuptools"); Python's str operations are modelled on these sequences. *)
(* A context is a function whose domain is the set of keys present.        *)
(***************************************************************************)
EXTENDS Integers, Sequences, FiniteSets, TLC

\* ------------------------------------------------------------------ bounds
\* files in a source tree
MaxFiles == 2
\* lines of a package description
MaxDescLines == 2
\* debianize runs over the same source tree
MaxRuns == 2

\* ------------------------------------------------- Python's str operations
StartsWith(s, p) ==
    Len(s) >= Len(p) /\ SubSeq(s, 1, Len(p)) = p

EndsWith(s, p) ==
    Len(s) >= Len(p) /\ SubSeq(s, Len(s) - Len(p) + 1, Len(s)) = p

\* p in s
Contains(s, p) ==
    \E i \in 1..(Len(s) - Len(p) + 1) : SubSeq(s, i, i + Len(p) - 1) = p

RECURSIVE StrReplace(_, _, _)
\* s.replace(old, new): every non-overlapping occurrence, left to right
StrReplace(s, old, new) ==
    IF Len(s) = 0 THEN <<>>
    ELSE IF StartsWith(s, old)
         THEN new \o StrReplace(SubSeq(s, Len(old) + 1, Len(s)), old, new)
         ELSE <<Head(s)>> \o StrReplace(Tail(s), old, new)

IsSpace(c) == c \in {" ", "\t"}

RECURSIVE LStrip(_)
LStrip(s) ==
    IF Len(s) > 0 /\ IsSpace(Head(s)) THEN LStrip(Tail(s)) ELSE s

RECURSIVE RStrip(_)
RStrip(s) ==
    IF Len(s) > 0 /\ IsSpace(s[Len(s)]) THEN RStrip(SubSeq(s, 1, Len(s) - 1)) ELSE s

\* s.strip()
Strip(s) == LStrip(RStrip(s))

\* os.path.join(a, b)
PathJoin(a, b) ==
    IF StartsWith(b, <<"/">>) THEN b
    ELSE IF Len(a) = 0 \/ EndsWith(a, <<"/">>) THEN a \o b
    ELSE a \o <<"/">> \o b

RECURSIVE JoinAll(_, _)
\* os.path.join(a, n1, n2, ...)
JoinAll(a, names) ==
    IF Len(names) = 0 THEN a ELSE JoinAll(PathJoin(a, Head(names)), Tail(names))

RECURSIVE SepJoin(_, _)
\* sep.join(parts)
SepJoin(sep, parts) ==
    IF Len(parts) = 0 THEN <<>>
    ELSE IF Len(parts) = 1 THEN parts[1]
    ELSE parts[1] \o sep \o SepJoin(sep, Tail(parts))

Range(f) == {f[i] : i \in DOMAIN f}

\* ------------------------------------------------------------- contexts
NoKeys == [k \in {} |-> 0]

Has(c, k) == k \in DOMAIN c

\* c[k] = v
Put(c, k, v) == (k :> v) @@ c

\* c.setdefault(k, v)
SetDefault(c, k, v) == IF Has(c, k) THEN c ELSE Put(c, k, v)

\* a merge in which the first write wins: what c.update(layer) is not
UpdateFirstWins(c, layer) == c @@ layer

\* c.update(layer): last write wins
Update(c, layer) == layer @@ c

\* c.get(k, d)
Get(c, k, d) == IF Has(c, k) THEN c[k] ELSE d

\* json.load gives a list where the document has an array: every item
\* carries its position, which no entry of a Python set does
JsonList(items) == {<<"[]", ToString(i)>> \o items[i] : i \in DOMAIN items}

IsJsonList(v) == \E e \in v : Len(e) > 0 /\ e[1] = "[]"


\* ------------------------------------------------------------ file contents
\* Every file content has the same shape: text files carry their lines, a
\* rendered template carries the template's name and the context it was
\* rendered from, a statically copied file carries the layer it came from.
Text(lines) == [kind |-> "text", tpl |-> "", ctx |-> NoKeys, lines |-> lines]

\* tpl.render(ctx) of template debian/<name>.tpl (or itp.mail)
Rendered(name, c) == [kind |-> "rendered", tpl |-> name, ctx |-> c, lines |-> <<>>]

StaticFile(layer) == [kind |-> "static", tpl |-> layer, ctx |-> NoKeys, lines |-> <<>>]

\* a file somebody wrote by hand before the run
HandEdited == Text(<< <<"hand-edited">> >>)

\* ------------------------------------------------------ program constants
SPHINX_DIR == {"docs", "doc", "doc/build"}

\* PKG_PREFIX_MAP of dhpython, inverted
INTERPRETER_MAP(impl) ==
    CASE impl = "python" -> "cpython2"
      [] impl = "python3" -> "cpython3"
      [] OTHER -> impl

VERSIONED_I_MAP(i) == IF i = "python" THEN "python2" ELSE i

OVERRIDES_PATH == <<"OVERRIDES">>
PROFILES_PATH == <<"PROFILES">>
TEMPLATES_PATH == <<"TEMPLATES">>

\* get_maintainer() of python-debian: the invoking user's identity
SysMaintainer == "Sys <sys@host>"

\* str.lower() on the package names of the model
Lower(n) == IF n = "Foo" THEN "foo" ELSE n

\* ------------------------------------------------------------------ paths
LastSlash(p) ==
    LET idx == {i \in 1..Len(p) : p[i] = "/"}
    IN IF idx = {} THEN 0 ELSE CHOOSE i \in idx : \A j \in idx : j <= i

DirName(p) == SubSeq(p, 1, LastSlash(p) - 1)

BaseName(p) == SubSeq(p, LastSlash(p) + 1, Len(p))

\* join(dpath, 'debian')
DebianDir(dp) == PathJoin(dp, <<"debian">>)

\* join(dpath, 'debian', name)
Artifact(dp, name) == PathJoin(DebianDir(dp), <<name>>)

\* os.walk(dp): one (root, file_names) pair per directory that holds files;
\* tr is the unpacked source, fs the files written so far (those below dp
\* are part of the walk).
Walk(dp, tr, fs) ==
    LET below == {p \in DOMAIN fs : StartsWith(p, dp \o <<"/">>)}
        entries == {[root |-> JoinAll(dp, e.dir), name |-> e.name] : e \in tr}
                   \cup {[root |-> DirName(p), name |-> BaseName(p)] : p \in below}
    IN {[root |-> r, names |-> {e.name : e \in {x \in entries : x.root = r}}] :
            r \in {e.root : e \in entries}}

\* ------------------------------------------------------------- update_ctx
\* a suffix test that forgets .cpp
IsCompiledSourceNoCpp(fname) ==
    \/ EndsWith(fname, <<".", "c">>)
    \/ EndsWith(fname, <<".", "p", "y", "x">>)

IsCompiledSource(fname) ==
    \/ EndsWith(fname, <<".", "c">>)
    \/ EndsWith(fname, <<".", "c", "p", "p">>)
    \/ EndsWith(fname, <<".", "p", "y", "x">>)

IsPyx(fname) == EndsWith(fname, <<".", "p", "y", "x">>)

\* fname[:-3] + ext
CSibling(fname, ext) == SubSeq(fname, 1, Len(fname) - 3) \o ext

\* the entries the walk adds to clean_files (lines 130-139)
CythonCleanFiles(dp, walk) ==
    UNION {UNION {{PathJoin(StrReplace(w.root, dp, <<".">>), CSibling(fname, ext)) :
                      ext \in {e \in {<<"c">>, <<"c", "p", "p">>} :
                                  CSibling(fname, e) \in w.names}} :
                  fname \in {f \in w.names : IsPyx(f)}} :
           w \in walk}

\* the build dependencies the walk adds (lines 131-135)
CythonDepends(c, walk) ==
    IF \E w \in walk : \E fname \in w.names : IsPyx(fname)
    THEN {<<"cython">> : i \in {i \in Range(c["interpreters"]) : i = "python"}}
         \cup {<<"cython3">> : i \in {i \in Range(c["interpreters"]) : i = "python3"}}
    ELSE {}

ArchOf(walk) ==
    IF \E w \in walk : \E fname \in w.names : IsCompiledSource(fname)
    THEN "any" ELSE "all"

update_ctx(dp, walk, c) ==
    LET c1 == SetDefault(c, "exports", NoKeys)
        c2 == SetDefault(c1, "build_depends", {})
        c3 == Put(c2, "creator", SysMaintainer)
        c4 == SetDefault(c3, "maintainer", SysMaintainer)
        c5 == SetDefault(c4, "debian_revision", <<"0~pypi2deb">>)
        c6 == SetDefault(c5, "clean_files", {})
        c7 == Put(c6, "binary_arch", ArchOf(walk))
        c8 == Put(c7, "build_depends", c7["build_depends"] \cup CythonDepends(c7, walk))
    IN Put(c8, "clean_files", c8["clean_files"] \cup CythonCleanFiles(dp, walk))

\* ------------------------------------------- debianize: the data layers
\* lines 64-69: the [py2dsp] section of setup.cfg
merge_setup_cfg(c, cfg) ==
    IF cfg.exists /\ cfg.has_py2dsp THEN Update(c, cfg.py2dsp) ELSE c

\* lines 71-79: an explicit profile file, else a named profile's ctx.json
merge_profile(c, prof) ==
    IF ~prof.given THEN c
    ELSE IF prof.is_file THEN Update(c, prof.file_doc)
    ELSE IF prof.has_ctx THEN Update(c, prof.ctx_json)
    ELSE c

\* lines 81-84: OVERRIDES_PATH/<name.lower()>/ctx.json
merge_override(c, ovr) ==
    IF Lower(c["name"]) \in DOMAIN ovr /\ ovr[Lower(c["name"])].has_ctx
    THEN Update(c, ovr[Lower(c["name"])].ctx_json)
    ELSE c

\* the context key a {placeholder} token names, "" for any other token
PlaceholderKey(tok) ==
    CASE tok = "{name}" -> "name"
      [] tok = "{src_name}" -> "src_name"
      [] tok = "{homepage}" -> "homepage"
      [] OTHER -> ""

\* str.format(**c) raises KeyError for a placeholder c does not hold
FormatRaises(v, c) ==
    \E i \in DOMAIN v : PlaceholderKey(v[i]) # "" /\ ~Has(c, PlaceholderKey(v[i]))

\* v.format(**c): one pass, the substituted text is not scanned again
Format(v, c) ==
    [i \in DOMAIN v |-> IF PlaceholderKey(v[i]) # "" THEN c[PlaceholderKey(v[i])] ELSE v[i]]

FORMAT_KEYS == <<"vcs_src", "vcs_browser", "uploaders">>

RECURSIVE format_keys(_, _)
\* lines 86-88, over the keys still to do
format_keys(c, keys) ==
    IF Len(keys) = 0 THEN c
    ELSE IF Has(c, Head(keys))
         THEN format_keys(Put(c, Head(keys), Format(c[Head(keys)], c)), Tail(keys))
         ELSE format_keys(c, Tail(keys))

RECURSIVE format_raises(_, _)
format_raises(c, keys) ==
    IF Len(keys) = 0 THEN FALSE
    ELSE IF Has(c, Head(keys))
         THEN IF FormatRaises(c[Head(keys)], c) THEN TRUE
              ELSE format_raises(Put(c, Head(keys), Format(c[Head(keys)], c)), Tail(keys))
         ELSE format_raises(c, Tail(keys))

\* ---------------------------------------------------- _copy_static_files
\* fn.endswith(('.tpl', '.swp'))
IsTemplateOrSwap(fn) == EndsWith(fn, <<".tpl">>) \/ EndsWith(fn, <<".swp">>)

\* join(root.replace(src_dir, debian_dir), fn) for the file e of the walk
StaticDest(src_dir, debian_dir, e) ==
    PathJoin(StrReplace(JoinAll(src_dir, e.dir), src_dir, debian_dir), e.name)

\* a copy that overwrites the destinations that exist
copy_static_files_clobber(src_dir, srcfiles, debian_dir, fs) ==
    LET todo == {e \in srcfiles : ~IsTemplateOrSwap(e.name)}
        dests == {StaticDest(src_dir, debian_dir, e) : e \in todo}
    IN [p \in DOMAIN fs \cup dests |->
            IF p \in dests
            THEN (CHOOSE e \in todo : StaticDest(src_dir, debian_dir, e) = p).content
            ELSE fs[p]]

\* the files of fs after _copy_static_files(src_dir, debian_dir); srcfiles
\* are the files below src_dir (none when src_dir does not exist)
copy_static_files(src_dir, srcfiles, debian_dir, fs) ==
    LET todo == {e \in srcfiles : /\ ~IsTemplateOrSwap(e.name)
                                  /\ StaticDest(src_dir, debian_dir, e) \notin DOMAIN fs}
        dests == {StaticDest(src_dir, debian_dir, e) : e \in todo}
    IN [p \in DOMAIN fs \cup dests |->
            IF p \in DOMAIN fs THEN fs[p]
            ELSE (CHOOSE e \in todo : StaticDest(src_dir, debian_dir, e) = p).content]

\* join(OVERRIDES_PATH, ctx['name'].lower())
OverridePath(c) == PathJoin(OVERRIDES_PATH, <<Lower(c["name"])>>)

OverrideStatic(c, ovr) ==
    IF Lower(c["name"]) \in DOMAIN ovr THEN ovr[Lower(c["name"])].static ELSE {}

\* -------------------------------------------------------------------- docs
\* fn.lower().startswith('readme') and fn.lower() == 'examples' on the
\* top-level names of the model
IsReadme(fn) == fn \in {"README", "readme.md"}

IsExamples(fn) == fn \in {"examples", "Examples"}

\* the last entry of the listing named examples, <<>> when there is none
LastExamples(listing) ==
    LET ex == SelectSeq(listing, IsExamples)
    IN IF Len(ex) = 0 THEN <<>> ELSE <<ex[Len(ex)]>>

\* ctx['docs'] after lines 143-153; sphinx are the SPHINX_DIR entries that
\* hold Makefile and conf.py, last the one the set iteration visits last
docs_dict(tp, c, last) ==
    LET d0 == Get(c, "docs", NoKeys)
        d1 == IF tp.sphinx = {} THEN d0
              ELSE Put(Put(d0, "sphinx_dir", last), "files",
                       Get(d0, "files", <<>>)
                       \o [i \in 1..Cardinality(tp.sphinx) |-> ".pybuild/docs/*"])
        readmes == SelectSeq(tp.listing, IsReadme)
        d2 == IF Len(readmes) = 0 THEN d1
              ELSE Put(d1, "files", Get(d1, "files", <<>>) \o readmes)
    IN IF LastExamples(tp.listing) = <<>> THEN d2
       ELSE Put(d2, "examples_dir", LastExamples(tp.listing)[1])

docs_ctx(tp, c, last) ==
    LET c1 == Put(c, "docs", docs_dict(tp, c, last))
    IN IF tp.sphinx = {} THEN c1
       ELSE Put(c1, "build_depends", c1["build_depends"] \cup {<<"python3-sphinx">>})

\* line 147 on a list: AttributeError, 'list' object has no attribute 'add'
docs_raises(tp, c) == tp.sphinx # {} /\ IsJsonList(c["build_depends"])

\* the context when line 147 raises in the first pass of the loop over
\* SPHINX_DIR that finds a sphinx directory, first
docs_ctx_raised(c, first) ==
    Put(c, "docs", Put(Get(c, "docs", NoKeys), "sphinx_dir", first))

\* lines 155-162
docs_pkg(c) ==
    IF Has(c["docs"], "sphinx_dir") THEN <<"python-", c["src_name"], "-doc">>
    ELSE IF "python3" \in Range(c["interpreters"]) THEN <<"python3-", c["src_name"]>>
    ELSE <<"python-", c["src_name"]>>

ExamplesPath(dp, c) == PathJoin(DebianDir(dp), docs_pkg(c) \o <<".examples">>)

DocsPath(dp, c) == PathJoin(DebianDir(dp), docs_pkg(c) \o <<".docs">>)

\* lines 163-166: open(..., 'w') and one line
write_examples(dp, c, fs) ==
    IF c["docs"] # NoKeys /\ Has(c["docs"], "examples_dir")
    THEN Put(fs, ExamplesPath(dp, c), Text(<< <<c["docs"]["examples_dir"], "/*">>, <<>> >>))
    ELSE fs

\* lines 167-171: open(..., 'w') and one line per entry of docs['files']
write_docs(dp, c, fs) ==
    IF c["docs"] # NoKeys /\ Has(c["docs"], "files")
    THEN Put(fs, DocsPath(dp, c),
             Text([i \in 1..Len(c["docs"]["files"]) |-> <<c["docs"]["files"][i]>>]
                  \o << <<>> >>))
    ELSE fs

\* the files after docs(), c being the context docs() has updated
docs_files(dp, c, fs) == write_docs(dp, c, write_examples(dp, c, fs))

\* ----------------------------------------------------------------- control
RECURSIVE Split(_, _)
\* s.split(sep) for a one-token separator: at least one part
Split(s, sep) ==
    IF \A i \in DOMAIN s : s[i] # sep THEN <<s>>
    ELSE LET k == CHOOSE i \in DOMAIN s : s[i] = sep /\ \A j \in 1..(i - 1) : s[j] # sep
         IN <<SubSeq(s, 1, k - 1)>> \o Split(SubSeq(s, k + 1, Len(s)), sep)

\* not line.strip()
IsBlank(line) == Strip(line) = <<>>

\* a marker test that forgets the bullet "* "
HasMarkerNoBullet(line) ==
    \/ StartsWith(line, <<">", ">", ">", " ">>)
    \/ StartsWith(line, <<".", ".", ".", " ">>)
    \/ StartsWith(line, <<".", ".", " ">>)
    \/ StartsWith(line, <<"$", " ">>)

\* line.startswith(('* ', '>>> ', '... ', '.. ', '$ '))
HasMarker(line) ==
    \/ StartsWith(line, <<"*", " ">>)
    \/ StartsWith(line, <<">", ">", ">", " ">>)
    \/ StartsWith(line, <<".", ".", ".", " ">>)
    \/ StartsWith(line, <<".", ".", " ">>)
    \/ StartsWith(line, <<"$", " ">>)

IsPrompt(line) == StartsWith(line, <<">", ">", ">", " ">>)

\* the test of lines 197-198
GetsExtraSpace(line, code_line) ==
    HasMarker(line) \/ code_line \/ line = <<".", ".", ".">>

\* line.replace('\t', '    ')
ExpandTabs(line) == StrReplace(line, <<"\t">>, <<" ", " ", " ", " ">>)

\* the value of the variable line when one pass of the loop body ends
LineAfter(line, code_line) ==
    IF IsBlank(line) THEN line
    ELSE IF GetsExtraSpace(line, code_line) THEN ExpandTabs(<<" ">> \o line)
    ELSE ExpandTabs(line)

\* what one pass of the loop body appends to desc
DescLine(line, code_line) ==
    IF IsBlank(line) THEN <<" ", ".">> ELSE <<" ">> \o LineAfter(line, code_line)

\* code_line when one pass of the loop body ends
CodeLineAfter(line, code_line) ==
    IF IsBlank(line) THEN code_line
    ELSE IF GetsExtraSpace(line, code_line)
         THEN (IF IsPrompt(line) THEN TRUE ELSE IF code_line THEN FALSE ELSE code_line)
         ELSE code_line

RECURSIVE reflow(_, _)
\* desc after the loop of lines 193-206 over lines, entered with code_line
reflow(lines, code_line) ==
    IF Len(lines) = 0 THEN <<>>
    ELSE <<DescLine(Head(lines), code_line)>>
         \o reflow(Tail(lines), CodeLineAfter(Head(lines), code_line))

RECURSIVE code_line_at_end(_, _)
code_line_at_end(lines, code_line) ==
    IF Len(lines) = 0 THEN code_line
    ELSE code_line_at_end(Tail(lines), CodeLineAfter(Head(lines), code_line))

\* the variable line after the loop: the last line, as the loop body left it
last_line(lines) ==
    LineAfter(lines[Len(lines)],
              code_line_at_end(SubSeq(lines, 1, Len(lines) - 1), FALSE))

\* '\n'.join(desc)
long_desc(description) ==
    SepJoin(<<"\n">>, reflow(Split(description, "\n"), FALSE))

\* ctx['summary'][:80]
SummaryMax == 80

short_desc(summary) == SubSeq(summary, 1, IF Len(summary) < SummaryMax THEN Len(summary) ELSE SummaryMax)

\* lines 207-212
set_descriptions(c) ==
    SetDefault(SetDefault(c, "short_desc", short_desc(c["summary"])),
               "long_desc", long_desc(c["description"]))

\* dhpython's guess_dependency and parse_pydep are library calls: a
\* requirement holding the token "!" is one they raise on, one holding
\* "!2" one they raise on for cpython2 only, a blank one yields no
\* dependency, any other yields a package name made from the
\* implementation and the requirement.
HelperRaises(impl, req) ==
    IF "!" \in Range(req) THEN TRUE ELSE impl = "cpython2" /\ "!2" \in Range(req)

guess_dependency(impl, req) ==
    IF IsBlank(req) THEN <<>> ELSE <<impl, ":">> \o Strip(req)

\* parse_pydep(impl, fpath) raises when a line of the file is one it raises on
ParseRaises(impl, reqfile) == \E r \in reqfile.reqs : HelperRaises(impl, r)

parse_pydep(impl, reqfile) ==
    {guess_dependency(impl, r) : r \in reqfile.reqs} \ {<<>>}

\* lines 215-223: the dependencies added when ctx holds requires; line is
\* the variable the description loop left behind
requires_depends(c) ==
    LET line == last_line(Split(c["description"], "\n"))
        impls == {INTERPRETER_MAP(i) : i \in Range(c["interpreters"])}
    IN {guess_dependency(impl, line) :
            impl \in {i \in impls : ~HelperRaises(i, line)}} \ {<<>>}

\* a scan that gives up at the first error: nothing once a helper raised
reqfile_depends_stop(tp, c) ==
    LET impls == {INTERPRETER_MAP(i) : i \in Range(c["interpreters"])}
    IN IF \E y \in impls \X tp.reqfiles : ParseRaises(y[1], y[2]) THEN {}
       ELSE UNION {parse_pydep(x[1], x[2]) : x \in impls \X tp.reqfiles}

\* lines 225-238: the dependencies from *.egg-info/requires.txt and
\* requirements.txt
reqfile_depends(tp, c) ==
    LET impls == {INTERPRETER_MAP(i) : i \in Range(c["interpreters"])}
    IN UNION {parse_pydep(x[1], x[2]) :
                x \in {y \in impls \X tp.reqfiles : ~ParseRaises(y[1], y[2])}}

\* lines 240-247
setuptools_depends(tp, c) ==
    IF /\ tp.setup_py.exists
       /\ \E i \in DOMAIN tp.setup_py.lines :
             /\ ~StartsWith(tp.setup_py.lines[i], <<"#">>)
             /\ Contains(tp.setup_py.lines[i], <<"setuptools">>)
    THEN {<<i, "-setuptools">> : i \in Range(c["interpreters"])}
    ELSE {}

\* a package name that ignores the architecture
AllPackagePlain(interpreter, arch) == <<interpreter, "-all">>

\* 'python-all%s' % ('-dev' if ctx['binary_arch'] == 'any' else '')
AllPackage(interpreter, arch) ==
    IF arch = "any" THEN <<interpreter, "-all", "-dev">> ELSE <<interpreter, "-all">>

\* lines 249-256
interpreter_depends(c) ==
    {AllPackage(i, c["binary_arch"]) : i \in Range(c["interpreters"]) \cap {"python", "python3"}}
    \cup {<<"pypy">> : i \in Range(c["interpreters"]) \cap {"pypy"}}

\* lines 247 and 250-256 on a list: AttributeError; in the loops of lines
\* 216-238 the except clauses catch it
control_raises(tp, c) ==
    /\ IsJsonList(c["build_depends"])
    /\ setuptools_depends(tp, c) \cup interpreter_depends(c) # {}

\* the body of control (lines 191-258)
control(tp, c) ==
    LET c1 == set_descriptions(c)
        deps == (IF Has(c1, "requires") THEN requires_depends(c1)
                 ELSE reqfile_depends(tp, c1))
                \cup setuptools_depends(tp, c1)
                \cup interpreter_depends(c1)
    IN IF IsJsonList(c1["build_depends"]) THEN c1
       ELSE Put(c1, "build_depends", c1["build_depends"] \cup deps)

\* ------------------------------------------------------------------- rules
\* 'PYBUILD_AFTER_INSTALL_{}'.format(ipreter)
AfterInstallKey(ipreter) ==
    CASE ipreter = "python2" -> "PYBUILD_AFTER_INSTALL_python2"
      [] ipreter = "python3" -> "PYBUILD_AFTER_INSTALL_python3"
      [] ipreter = "pypy" -> "PYBUILD_AFTER_INSTALL_pypy"
      [] OTHER -> "PYBUILD_AFTER_INSTALL_"

\* lines 268-277: the exports after the console_scripts scan
console_script_exports(tp, c) ==
    IF /\ tp.setup_py.exists
       /\ Len(c["interpreters"]) > 1
       /\ \E i \in DOMAIN tp.setup_py.lines :
             Contains(tp.setup_py.lines[i], <<"console_scripts">>)
    THEN [k \in {AfterInstallKey(VERSIONED_I_MAP(i)) :
                    i \in Range(c["interpreters"]) \ {"python3"}} |->
             "rm -rf {destdir}/usr/bin/"] @@ c["exports"]
    ELSE c["exports"]

\* the body of rules (lines 263-279)
rules(tp, c) ==
    LET plugins == SepJoin(<<",">>, [i \in DOMAIN c["interpreters"] |->
                                        <<VERSIONED_I_MAP(c["interpreters"][i])>>])
        sphinx == Has(c, "docs") /\ Has(c["docs"], "sphinx_dir")
        c1 == Put(c, "with", IF sphinx THEN plugins \o <<",sphinxdoc">> ELSE plugins)
    IN Put(c1, "exports", console_script_exports(tp, c1))

\* --------------------------------------------------------------- changelog
\* "{}-{}".format(ctx['version'], ctx['debian_revision'])
DebVersion(c) == c["version"] \o <<"-">> \o c["debian_revision"]

Distribution(c) == Get(c, "distribution", <<"UNRELEASED">>)

Change(c) == Get(c, "message", <<"Autogenerated by py2dsp">>)

\* fp.readline(): the text up to the first line break
FirstLine(content) == IF Len(content.lines) = 0 THEN <<>> ELSE content.lines[1]

\* a test of line 291 that forgets the UNRELEASED marker
NeedsNoUpdateVersionOnly(c, content) == Contains(FirstLine(content), c["version"])

\* the test of line 291
NeedsNoUpdate(c, content) ==
    \E word \in {c["version"], <<"UNRELEASED">>} : Contains(FirstLine(content), word)

\* the first line of a changelog block: package (version) distribution; urgency
BlockHeader(pkg, version, distribution) ==
    <<pkg, " ", "(">> \o version \o <<")", " ">> \o distribution \o <<";", " ", "urgency=low">>

\* lines 299-312: the changelog a first run writes; now is the time of the run
new_changelog(c, now) ==
    Text(<< BlockHeader(c["src_name"], DebVersion(c), Distribution(c)),
            <<>>,
            <<" ", " ", "*", " ">> \o Change(c),
            <<>>,
            <<" -- ", c["creator"], "  ", now>>,
            <<>> >>)

\* what dch --force-distribution --distribution D --newversion V -m M leaves
\* when it exits 0: a new first block above the old ones
dch_changelog(c, old, now) ==
    [old EXCEPT !.lines =
        << BlockHeader(c["src_name"], DebVersion(c), Distribution(c)),
           <<>>,
           <<" ", " ", "*", " ">> \o Change(c),
           <<>>,
           <<" -- ", c["creator"], "  ", now>> >> \o @]

\* pypi2deb.tools.execute: the coroutine resumes with the helper's exit
\* result; a non-zero exit is a value of the result, not an exception
execute(returncode) == [returncode |-> returncode, raises |-> FALSE]

\* --------------------------------------------------------------- copyright
\* line.lower().startswith('copyright '); the ten characters are one token
IsCopyrightLine(line) ==
    Len(line) > 0 /\ line[1] \in {"copyright ", "Copyright ", "COPYRIGHT "}

RECURSIVE license_scan(_, _)
\* ctx['copyright'] after lines 331-338 over the lines still to read
license_scan(lines, holder) ==
    IF Len(lines) = 0 THEN holder
    ELSE IF ~IsBlank(Head(lines)) /\ holder = <<>> /\ IsCopyrightLine(Head(lines))
         THEN license_scan(Tail(lines), Tail(Head(lines)))
         ELSE license_scan(Tail(lines), holder)

\* license after the loop: ' .' for a blank line, else ' ' + line
license_text(lines) ==
    SepJoin(<<"\n">>, [i \in DOMAIN lines |->
                          IF IsBlank(lines[i]) THEN <<" ", ".">> ELSE <<" ">> \o lines[i]])

\* the body of copyright (lines 318-344)
copyright(tp, c) ==
    LET c1 == Put(c, "deb_copyright", <<"2015 © ", c["creator"]>>)
        c2 == Put(c1, "deb_license_name", c1["license_name"])
        c3 == SetDefault(c2, "copyright", <<>>)
        scan == Get(c3, "license", <<>>) = <<>> /\ tp.license.exists
        c4 == IF scan THEN Put(c3, "copyright", license_scan(tp.license.lines, c3["copyright"]))
              ELSE c3
        c5 == IF scan /\ Len(tp.license.lines) > 0
              THEN Put(c4, "license", license_text(tp.license.lines))
              ELSE c4
    IN IF c5["copyright"] = <<>> THEN Put(c5, "copyright", c5["author"]) ELSE c5

\* the body of watch (line 349)
watch(tp, c) == c

\* ---------------------------------------------------------------- itp_mail
\* join(ctx['root'], '{src_name}_{version}-{debian_revision}.mail')
MailPath(c) ==
    PathJoin(c["root"],
             <<c["src_name"], "_">> \o c["version"] \o <<"-">> \o c["debian_revision"]
             \o <<".mail">>)

\* an itp_mail that writes the mail whether or not there is one
itp_mail_rewrite(c, fs) == Put(fs, MailPath(c), Rendered("itp.mail", c))

itp_mail(c, fs) ==
    IF MailPath(c) \in DOMAIN fs THEN fs
    ELSE Put(fs, MailPath(c), Rendered("itp.mail", c))

\* ------------------------------------------------------------------- clean
\* The lines of a text are what its line breaks separate, so a text ending
\* in a line break ends in an empty piece, which reading does not yield.
ReadLines(content) ==
    IF Len(content.lines) > 0 /\ content.lines[Len(content.lines)] = <<>>
    THEN SubSeq(content.lines, 1, Len(content.lines) - 1)
    ELSE content.lines

\* an empty file, as open(fpath, 'a') creates it
EmptyFile == Text(<< <<>> >>)

\* lines 362-367
old_clean(dp, fs) ==
    IF Artifact(dp, "clean") \in DOMAIN fs
    THEN {Strip(l) : l \in Range(ReadLines(fs[Artifact(dp, "clean")]))}
    ELSE {}

\* a clean that appends every entry, listed already or not
new_clean_all(dp, c, fs) == c["clean_files"]

\* lines 369-372
new_clean(dp, c, fs) == {i \in c["clean_files"] : i \notin old_clean(dp, fs)}

\* a clean that opens the file with 'w': what was listed is lost
clean_truncating(dp, fs, order) ==
    IF Len(order) = 0 THEN fs
    ELSE Put(fs, Artifact(dp, "clean"), [EmptyFile EXCEPT !.lines = @ \o order])

\* lines 374-377: fp.write("\n{}".format(fn)) for fn in the order given
clean(dp, fs, order) ==
    IF Len(order) = 0 THEN fs
    ELSE LET old == IF Artifact(dp, "clean") \in DOMAIN fs
                    THEN fs[Artifact(dp, "clean")] ELSE EmptyFile
         IN Put(fs, Artifact(dp, "clean"), [old EXCEPT !.lines = @ \o order])

\* the orders in which a set can be iterated
Orders(S) == {o \in [1..Cardinality(S) -> S] : Range(o) = S}

\* ---------------------------------------------------------- _render_template
\* a gate that never skips
NeverSkips(dp, name, fs) == FALSE

\* lines 178-181: the target exists, the generator is skipped
Skips(dp, name, fs) == Artifact(dp, name) \in DOMAIN fs

\* a wrapper that runs the body and never writes the target
render_template_unwritten(dp, name, body_ctx, c, fs) ==
    IF Skips(dp, name, fs)
    THEN [ctx |-> c, files |-> fs, invoked |-> FALSE]
    ELSE [ctx |-> body_ctx, files |-> fs, invoked |-> TRUE]

\* _template(dpath, ctx, env) for the generator name, whose body would leave
\* the context body_ctx: the context, the files and whether the body ran
render_template(dp, name, body_ctx, c, fs) ==
    IF Skips(dp, name, fs)
    THEN [ctx |-> c, files |-> fs, invoked |-> FALSE]
    ELSE [ctx |-> body_ctx,
          files |-> Put(fs, Artifact(dp, name), Rendered(name, body_ctx)),
          invoked |-> TRUE]

\* ------------------------------------------------------------------- state
VARIABLES
    dpath,            \* the source root, as debianize is given it
    tree,             \* the files of the unpacked source: [dir, name]
    top,              \* what the generators look up at the source root
    ctx0,             \* the context the caller supplies to each run
    setup_cfg,        \* dpath/setup.cfg
    profile,          \* the profile argument and what it names
    overrides,        \* OVERRIDES_PATH: lower-cased package name -> override
    templates,        \* the static files below TEMPLATES_PATH/debian
    files,            \* the files written: path -> content
    ctx,              \* the context of the run
    pc,               \* where debianize is
    initial_release,  \* what changelog returned
    run,              \* the number of the run
    before,           \* files when the run started
    invoked,          \* the generator bodies that ran in this run
    called,           \* the generators called in this run
    helper,           \* dch: its calls and last exit in this run, its failures so far
    aborted           \* the run that was cut short: where, and the files it had found

inputs == <<dpath, tree, top, ctx0, setup_cfg, profile, overrides, templates>>

ghosts == <<run, before, invoked, called, helper, aborted>>

vars == <<dpath, tree, top, ctx0, setup_cfg, profile, overrides, templates,
          files, ctx, pc, initial_release, run, before, invoked, called, helper,
          aborted>>

\* ----------------------------------------------------------------- actions
NoHelper == [calls |-> 0, returncode |-> 0, failures |-> 0]

\* no run was cut short
NoAbort == [at |-> "", before |-> NoKeys]

\* the time of a run, as the changelog trailer shows it
Now == ToString(run)

\* line 62
UpdateCtx ==
    /\ pc = "start"
    /\ ctx' = update_ctx(dpath, Walk(dpath, tree, files), ctx)
    /\ pc' = "setup_cfg"
    /\ UNCHANGED <<inputs, files, initial_release, ghosts>>

\* lines 64-69
MergeSetupCfg ==
    /\ pc = "setup_cfg"
    /\ ctx' = merge_setup_cfg(ctx, setup_cfg)
    /\ pc' = "profile"
    /\ UNCHANGED <<inputs, files, initial_release, ghosts>>

\* lines 71-79
MergeProfile ==
    /\ pc = "profile"
    /\ ctx' = merge_profile(ctx, profile)
    /\ pc' = "override"
    /\ UNCHANGED <<inputs, files, initial_release, ghosts>>

\* lines 81-84
MergeOverride ==
    /\ pc = "override"
    /\ ctx' = merge_override(ctx, overrides)
    /\ pc' = "format"
    /\ UNCHANGED <<inputs, files, initial_release, ghosts>>

\* lines 86-88
FormatKeys ==
    /\ pc = "format"
    /\ ~format_raises(ctx, FORMAT_KEYS)
    /\ ctx' = format_keys(ctx, FORMAT_KEYS)
    /\ pc' = "static_override"
    /\ UNCHANGED <<inputs, files, initial_release, ghosts>>

\* lines 86-88, a placeholder names a key the context lacks: KeyError
FormatKeyError ==
    /\ pc = "format"
    /\ format_raises(ctx, FORMAT_KEYS)
    /\ pc' = "error"
    /\ UNCHANGED <<inputs, files, ctx, initial_release, ghosts>>

\* line 94
CopyOverrideStatic ==
    /\ pc = "static_override"
    /\ files' = copy_static_files(PathJoin(OverridePath(ctx), <<"debian">>),
                                  OverrideStatic(ctx, overrides),
                                  DebianDir(dpath), files)
    /\ pc' = "static_templates"
    /\ UNCHANGED <<inputs, ctx, initial_release, ghosts>>

\* line 95
CopyTemplateStatic ==
    /\ pc = "static_templates"
    /\ files' = copy_static_files(PathJoin(TEMPLATES_PATH, <<"debian">>), templates,
                                  DebianDir(dpath), files)
    /\ pc' = "static_profile"
    /\ UNCHANGED <<inputs, ctx, initial_release, ghosts>>

\* lines 96-97
CopyProfileStatic ==
    /\ pc = "static_profile"
    /\ files' = IF profile.given
                THEN copy_static_files(JoinAll(PROFILES_PATH, <<profile.name, <<"debian">> >>),
                                       profile.static, DebianDir(dpath), files)
                ELSE files
    /\ pc' = "docs"
    /\ UNCHANGED <<inputs, ctx, initial_release, ghosts>>

\* line 103
Docs ==
    /\ pc = "docs"
    /\ ~docs_raises(top, ctx)
    /\ \E last \in (IF top.sphinx = {} THEN {""} ELSE top.sphinx) :
          /\ ctx' = docs_ctx(top, ctx, last)
          /\ files' = docs_files(dpath, docs_ctx(top, ctx, last), files)
    /\ pc' = "control"
    /\ called' = called \cup {"docs"}
    /\ UNCHANGED <<inputs, initial_release, run, aborted, before, invoked, helper>>

\* line 103, line 147 raises
DocsError ==
    /\ pc = "docs"
    /\ docs_raises(top, ctx)
    /\ \E first \in top.sphinx : ctx' = docs_ctx_raised(ctx, first)
    /\ called' = called \cup {"docs"}
    /\ pc' = "error"
    /\ UNCHANGED <<inputs, files, initial_release, run, aborted, before, invoked, helper>>

\* a call of the template generator name, whose body would leave body_ctx
Generate(name, body_ctx, next) ==
    LET r == render_template(dpath, name, body_ctx, ctx, files)
    IN /\ pc = name
       /\ ctx' = r.ctx
       /\ files' = r.files
       /\ invoked' = IF r.invoked THEN invoked \cup {name} ELSE invoked
       /\ called' = called \cup {name}
       /\ pc' = next
       /\ UNCHANGED <<inputs, initial_release, run, aborted, before, helper>>

\* line 104
Control ==
    /\ pc = "control"
    /\ IF Skips(dpath, "control", files) THEN TRUE ELSE ~control_raises(top, ctx)
    /\ Generate("control", control(top, ctx), "rules")

\* line 104, the body of control raises at one of lines 247-256
ControlError ==
    /\ pc = "control"
    /\ ~Skips(dpath, "control", files)
    /\ control_raises(top, ctx)
    /\ ctx' = set_descriptions(ctx)
    /\ invoked' = invoked \cup {"control"}
    /\ called' = called \cup {"control"}
    /\ pc' = "error"
    /\ UNCHANGED <<inputs, files, initial_release, run, aborted, before, helper>>

\* line 105
Rules == Generate("rules", rules(top, ctx), "changelog")

\* lines 288-293: the changelog exists and needs no update
ChangelogUpToDate ==
    /\ pc = "changelog"
    /\ Artifact(dpath, "changelog") \in DOMAIN files
    /\ NeedsNoUpdate(ctx, files[Artifact(dpath, "changelog")])
    /\ initial_release' = FALSE
    /\ called' = called \cup {"changelog"}
    /\ pc' = "copyright"
    /\ UNCHANGED <<inputs, files, ctx, run, aborted, before, invoked, helper>>

\* lines 294-296: the changelog exists and dch is started
ChangelogCallsDch ==
    /\ pc = "changelog"
    /\ Artifact(dpath, "changelog") \in DOMAIN files
    /\ ~NeedsNoUpdate(ctx, files[Artifact(dpath, "changelog")])
    /\ helper' = [helper EXCEPT !.calls = @ + 1]
    /\ called' = called \cup {"changelog"}
    /\ pc' = "dch"
    /\ UNCHANGED <<inputs, files, ctx, initial_release, run, aborted, before, invoked>>

\* what changelog does with what execute resumes with (lines 295-297)
DchReturns(returncode) ==
    /\ helper' = [helper EXCEPT !.returncode = returncode,
                                !.failures = IF returncode = 0 THEN @ ELSE @ + 1]
    /\ initial_release' = FALSE
    /\ pc' = IF execute(returncode).raises THEN "error" ELSE "copyright"
    /\ UNCHANGED <<inputs, ctx, run, aborted, before, invoked, called>>

\* dch exits 0 and has written the new block
DchSucceeds ==
    /\ pc = "dch"
    /\ files' = Put(files, Artifact(dpath, "changelog"),
                    dch_changelog(ctx, files[Artifact(dpath, "changelog")], Now))
    /\ DchReturns(0)

\* dch exits non-zero and has written nothing
DchFails ==
    /\ pc = "dch"
    /\ files' = files
    /\ DchReturns(1)

\* lines 299-313: there is no changelog
ChangelogNew ==
    /\ pc = "changelog"
    /\ Artifact(dpath, "changelog") \notin DOMAIN files
    /\ files' = Put(files, Artifact(dpath, "changelog"), new_changelog(ctx, Now))
    /\ initial_release' = TRUE
    /\ called' = called \cup {"changelog"}
    /\ pc' = "itp_mail"
    /\ UNCHANGED <<inputs, ctx, run, aborted, before, invoked, helper>>

\* lines 107-108
ItpMail ==
    /\ pc = "itp_mail"
    /\ files' = itp_mail(ctx, files)
    /\ called' = called \cup {"itp_mail"}
    /\ pc' = "copyright"
    /\ UNCHANGED <<inputs, ctx, initial_release, run, aborted, before, invoked, helper>>

\* line 109
Copyright == Generate("copyright", copyright(top, ctx), "watch")

\* line 110
Watch == Generate("watch", watch(top, ctx), "clean")

\* line 111
Clean ==
    /\ pc = "clean"
    /\ \E order \in Orders(new_clean(dpath, ctx, files)) :
          files' = clean(dpath, files, order)
    /\ called' = called \cup {"clean"}
    /\ pc' = "done"
    /\ UNCHANGED <<inputs, ctx, initial_release, run, aborted, before, invoked, helper>>

\* the steps of lines 103-111 before which a run can be cut short
AbortPoints == {"control", "rules", "changelog", "itp_mail", "copyright", "watch", "clean"}

\* the run ends between two generator calls (the process is killed, or the
\* call that follows raises before it writes): what is written stays
Abort ==
    /\ pc \in AbortPoints
    /\ run = 1
    /\ aborted' = [at |-> pc, before |-> before]
    /\ pc' = "aborted"
    /\ UNCHANGED <<inputs, files, ctx, initial_release, run, before, invoked, called, helper>>

\* debianize is run again on the tree the last run left, with a context
\* equal to the one the last run was given; the run after one that was cut
\* short is the last one followed
Rerun ==
    /\ \/ pc = "done" /\ aborted = NoAbort
       \/ pc = "aborted"
    /\ run < MaxRuns
    /\ run' = run + 1
    /\ ctx' = ctx0
    /\ before' = files
    /\ invoked' = {}
    /\ called' = {}
    /\ helper' = [NoHelper EXCEPT !.failures = helper.failures]
    /\ initial_release' = FALSE
    /\ pc' = "start"
    /\ UNCHANGED <<inputs, files, aborted>>

Next ==
    \/ UpdateCtx \/ MergeSetupCfg \/ MergeProfile \/ MergeOverride
    \/ FormatKeys \/ FormatKeyError
    \/ CopyOverrideStatic \/ CopyTemplateStatic \/ CopyProfileStatic
    \/ Docs \/ DocsError \/ Control \/ ControlError \/ Rules
    \/ ChangelogUpToDate \/ ChangelogCallsDch \/ DchSucceeds \/ DchFails \/ ChangelogNew
    \/ ItpMail \/ Copyright \/ Watch \/ Clean
    \/ Abort
    \/ Rerun

\* ------------------------------------------------------------------ inputs
\* Each initial state is one input of debianize: a source tree, a context,
\* the data layers and the debian directory the run finds.  The inputs vary
\* one aspect at a time around a default, so that each aspect is covered
\* without multiplying all of them.
M_PYX == <<"m", ".", "p", "y", "x">>
M_C == <<"m", ".", "c">>
M_CPP == <<"m", ".", "c", "p", "p">>
N_C == <<"n", ".", "c">>
M_PY == <<"m", ".", "p", "y">>

FileNames == {M_PYX, M_C, M_CPP, M_PY}

\* the directories of a tree, as the names below the source root; one is
\* named like the source root of DPaths, one ends like a C source
Dirs == {<<>>, << <<"p">> >>, << <<"s", ".", "c">> >>}

DPaths == {<<"p">>, <<".">>, <<"/", "t", "/", "p">>}

\* the files a tree may hold: any of the names at the root, the Cython
\* sources one level down, a Python file in the directory named like a C file
TreeFiles ==
    {e \in [dir : Dirs, name : FileNames] :
        \/ e.dir = <<>>
        \/ e.dir = << <<"p">> >> /\ e.name # M_PY
        \/ e.dir = << <<"s", ".", "c">> >> /\ e.name = M_PY}

Trees == {t \in SUBSET TreeFiles : Cardinality(t) <= MaxFiles}

CythonTree == {[dir |-> <<>>, name |-> M_PYX], [dir |-> <<>>, name |-> M_C]}

NoFile == [exists |-> FALSE, lines |-> <<>>]

SetupPy(lines) == [exists |-> TRUE, lines |-> lines]

Top0 == [listing |-> <<>>, sphinx |-> {}, setup_py |-> NoFile, reqfiles |-> {},
         license |-> NoFile]

TopDocs == [Top0 EXCEPT !.listing = <<"README", "examples">>]

Tops ==
    {Top0, TopDocs,
     [Top0 EXCEPT !.listing = <<"readme.md", "README", "Examples">>, !.sphinx = {"docs"}],
     [Top0 EXCEPT !.sphinx = {"docs", "doc"}],
     [Top0 EXCEPT !.setup_py = SetupPy(<< <<"#", "setuptools">>, <<"x">> >>)],
     [Top0 EXCEPT !.setup_py = SetupPy(<< <<"import", " ", "setuptools">>,
                                          <<"console_scripts">> >>)],
     [Top0 EXCEPT !.reqfiles = {[name |-> "requirements.txt",
                                 reqs |-> {<<"a">>, <<"b", "!">>}],
                                [name |-> "foo.egg-info/requires.txt",
                                 reqs |-> {<<"c">>, <<" ">>, <<"d", "!2">>}]}],
     [Top0 EXCEPT !.license = [exists |-> TRUE,
                               lines |-> << <<"M", "I", "T">>, <<>>,
                                            <<"Copyright ", "A">>, <<"copyright ", "B">> >>]],
     [Top0 EXCEPT !.license = [exists |-> TRUE, lines |-> <<>>]]}

Ctx0Base ==
    [name |-> "Foo", src_name |-> "foo", version |-> <<"1">>,
     interpreters |-> <<"python3">>,
     description |-> <<"a">>, summary |-> <<"a">>,
     license_name |-> "MIT", author |-> <<"Aut">>, root |-> <<"r">>]

Interpreters ==
    {<<"python3">>, <<"python">>, <<"python", "python3">>, <<"python3", "pypy">>,
     <<"python", "pypy">>}

NoSetupCfg == [exists |-> FALSE, has_py2dsp |-> FALSE, py2dsp |-> NoKeys]

NoProfile ==
    [given |-> FALSE, name |-> <<>>, is_file |-> FALSE, file_doc |-> NoKeys,
     has_ctx |-> FALSE, ctx_json |-> NoKeys, static |-> {}]

NoOverrides == [n \in {} |-> 0]

Compat == [dir |-> <<>>, name |-> <<"compat">>]

From(layer, entries) ==
    {[dir |-> e.dir, name |-> e.name, content |-> StaticFile(layer)] : e \in entries}

Templates0 == From("templates", {Compat})

\* a changelog somebody keeps, its first line naming the version v
UserChangelog(v, dist) ==
    Text(<< BlockHeader("foo", v, dist), <<>>, <<" ", " ", "*", " ", "by hand">>, <<>> >>)

\* every variable but the inputs, as a run finds them
Ready(fs, c0) ==
    /\ files = fs
    /\ ctx0 = c0
    /\ ctx = c0
    /\ pc = "start"
    /\ initial_release = FALSE
    /\ run = 1
    /\ before = fs
    /\ invoked = {}
    /\ called = {}
    /\ helper = NoHelper
    /\ aborted = NoAbort

DefaultLayers ==
    /\ setup_cfg = NoSetupCfg
    /\ profile = NoProfile
    /\ overrides = NoOverrides
    /\ templates = Templates0

\* The debian directory a run may find: any of the generated files may be
\* there already, written by hand.
GateNames == {"control", "rules", "copyright", "watch"}

\* nothing, or one of S
Maybe(S) == {<<>>} \cup {<<x>> : x \in S}

\* the file at path when there is one
Found(opt, path) == IF opt = <<>> THEN NoKeys ELSE path :> opt[1]

Changelogs ==
    {UserChangelog(<<"1", "-", "1">>, <<"unstable">>),
     UserChangelog(<<"2", ".", "1", "-", "1">>, <<"unstable">>),
     UserChangelog(<<"0", ".", "9", "-", "2">>, <<"UNRELEASED">>),
     UserChangelog(<<"0", ".", "9", "-", "2">>, <<"unstable">>)}

\* clean lists as a run may have left them, or as somebody wrote them
CleanLists ==
    {Text(<< <<"x">>, <<>> >>),
     Text(<< <<" ", ".", "/", "m", ".", "c", " ">>, <<"x">> >>),
     Text(<< <<>>, <<".", "/", "m", ".", "c">> >>)}

DocsPkg0 == <<"python3-", "foo">>

MailPath0 == PathJoin(<<"r">>, <<"foo", "_", "1", "-", "0~pypi2deb", ".mail">>)

InitArtifacts ==
    \E gate \in SUBSET GateNames, cl \in Maybe(Changelogs), cn \in Maybe(CleanLists),
       docs \in Maybe({HandEdited}), mail \in Maybe({HandEdited}) :
        /\ docs = mail
        /\ (cn # <<>> => gate \in {{}, GateNames})
        /\ dpath = <<"p">>
        /\ tree = CythonTree
        /\ top = TopDocs
        /\ DefaultLayers
        /\ Ready([p \in {Artifact(<<"p">>, n) : n \in gate} |-> HandEdited]
                 @@ Found(cl, Artifact(<<"p">>, "changelog"))
                 @@ Found(cn, Artifact(<<"p">>, "clean"))
                 @@ Found(docs, PathJoin(DebianDir(<<"p">>), DocsPkg0 \o <<".docs">>))
                 @@ Found(docs, PathJoin(DebianDir(<<"p">>), DocsPkg0 \o <<".examples">>))
                 @@ Found(mail, MailPath0),
                 Ctx0Base)

\* the source trees
InitTrees ==
    \E dp \in DPaths, t \in Trees,
       ints \in {<<"python3">>, <<"python", "python3">>},
       given \in {{}, {<<"k">>}} :
        /\ (given = {}) = (ints = <<"python3">>)
        /\ (given # {} => dp = <<"p">>)
        /\ dpath = dp
        /\ tree = t
        /\ top = Top0
        /\ DefaultLayers
        /\ Ready(NoKeys,
                 IF given = {} THEN [Ctx0Base EXCEPT !.interpreters = ints]
                 ELSE Put(Put([Ctx0Base EXCEPT !.interpreters = ints],
                              "clean_files", given), "binary_arch", "any"))

\* the lines of the descriptions
DescLines ==
    {<<>>, <<" ", "\t">>, <<"a">>, <<"*", " ", "\t", "a">>, <<"*", "a">>,
     <<">", ">", ">", " ", "a">>, <<".", ".", ".">>}

Descriptions ==
    {SepJoin(<<"\n">>, ls) : ls \in UNION {[1..n -> DescLines] : n \in 1..MaxDescLines}}

InitDescriptions ==
    \E d \in Descriptions, extra \in {"", "requires", "long_desc"} :
        /\ (extra = "long_desc" => Len(d) <= 1)
        /\ (extra = "requires" => Len(Split(d, "\n")) <= 2)
        /\ dpath = <<"p">>
        /\ tree = {}
        /\ top = Top0
        /\ DefaultLayers
        /\ Ready(NoKeys,
                 CASE extra = "requires" ->
                        Put([Ctx0Base EXCEPT !.description = d], "requires", << <<"r">> >>)
                   [] extra = "long_desc" ->
                        Put([Ctx0Base EXCEPT !.description = d], "long_desc", <<"given">>)
                   [] OTHER -> [Ctx0Base EXCEPT !.description = d])

\* the data layers; a value names the layer it comes from
LayerDocs(layer) ==
    {"K1" :> layer,
     ("K1" :> layer) @@ ("K2" :> layer),
     ("K2" :> layer) @@ ("vcs_src" :> <<layer, "{name}">>)}

SetupCfgs ==
    {NoSetupCfg, [exists |-> TRUE, has_py2dsp |-> FALSE, py2dsp |-> NoKeys]}
    \cup {[exists |-> TRUE, has_py2dsp |-> TRUE, py2dsp |-> d] : d \in LayerDocs("setup.cfg")}

Profiles ==
    {NoProfile, [NoProfile EXCEPT !.given = TRUE, !.name = <<"std">>]}
    \cup {[NoProfile EXCEPT !.given = TRUE, !.name = <<"/", "f">>, !.is_file = TRUE,
                            !.file_doc = d] : d \in LayerDocs("profile file")}
    \cup {[NoProfile EXCEPT !.given = TRUE, !.name = <<"std">>, !.has_ctx = TRUE,
                            !.ctx_json = d] : d \in LayerDocs("profile")}
    \cup {[NoProfile EXCEPT !.given = TRUE, !.name = <<"std">>, !.is_file = TRUE,
                            !.file_doc = "K1" :> "profile file",
                            !.has_ctx = TRUE, !.ctx_json = "K1" :> "profile"]}

Override(has_ctx, doc, static) == [has_ctx |-> has_ctx, ctx_json |-> doc, static |-> static]

Overrides ==
    {NoOverrides, "foo" :> Override(FALSE, NoKeys, {}),
     "bar" :> Override(TRUE, "K1" :> "override of bar", {})}
    \cup {"foo" :> Override(TRUE, d, {}) : d \in LayerDocs("override")}
    \cup {"foo" :> Override(TRUE, "vcs_browser" :> <<"{homepage}">>, {})}

InitLayers ==
    \E cfg \in SetupCfgs, prof \in Profiles, ovr \in Overrides,
       given \in {NoKeys, "K1" :> "caller"} :
        /\ dpath = <<"p">>
        /\ tree = {}
        /\ top = Top0
        /\ setup_cfg = cfg
        /\ profile = prof
        /\ overrides = ovr
        /\ templates = Templates0
        /\ Ready(NoKeys, given @@ Ctx0Base)

\* the static subtrees
RulesFile == [dir |-> <<>>, name |-> <<"rules">>]
SourceFormat == [dir |-> << <<"source">> >>, name |-> <<"format">>]
Tpl == [dir |-> <<>>, name |-> <<"control", ".tpl">>]
Swp == [dir |-> << <<"source">> >>, name |-> <<".", "format", ".swp">>]

StaticTrees == {{}, {Compat}, {RulesFile, Tpl}, {Compat, SourceFormat, Swp}}

InitStatics ==
    \E o \in StaticTrees, t \in StaticTrees \ {{}}, pr \in Maybe(StaticTrees),
       found \in {{}, {Compat}, {RulesFile}, {Compat, RulesFile, SourceFormat}} :
        /\ dpath = <<"p">>
        /\ tree = {}
        /\ top = Top0
        /\ setup_cfg = NoSetupCfg
        /\ profile = IF pr = <<>> THEN NoProfile
                     ELSE [NoProfile EXCEPT !.given = TRUE, !.name = <<"std">>,
                                            !.static = From("profile", pr[1])]
        /\ overrides = IF o = {} THEN NoOverrides
                       ELSE "foo" :> Override(FALSE, NoKeys, From("override", o))
        /\ templates = From("templates", t)
        /\ Ready([p \in {StaticDest(<<"x">>, DebianDir(<<"p">>), e) : e \in found} |->
                     HandEdited],
                 Ctx0Base)

\* build_depends from the caller and from the JSON documents of the layers
ListDoc(layer) == "build_depends" :> JsonList(<< <<layer>> >>)

InitSets ==
    \E ovr \in {NoOverrides, "foo" :> Override(TRUE, ListDoc("override"), {})},
       prof \in {NoProfile,
                 [NoProfile EXCEPT !.given = TRUE, !.name = <<"std">>, !.has_ctx = TRUE,
                                   !.ctx_json = ListDoc("profile")]},
       sphinx \in {{}, {"docs"}},
       gate \in {{}, {"control"}} :
        /\ dpath = <<"p">>
        /\ tree = CythonTree
        /\ top = [Top0 EXCEPT !.sphinx = sphinx]
        /\ setup_cfg = NoSetupCfg
        /\ profile = prof
        /\ overrides = ovr
        /\ templates = Templates0
        /\ Ready([p \in {Artifact(<<"p">>, n) : n \in gate} |-> HandEdited],
                 Put(Ctx0Base, "build_depends", {<<"dh-python">>}))

\* values a caller may supply for the keys the context builder sets
Supplied ==
    [exports |-> ("E" :> "v"), build_depends |-> {<<"dh-python">>},
     clean_files |-> {<<"k">>}, creator |-> "Caller <c@host>",
     maintainer |-> "Caller <c@host>", debian_revision |-> <<"1">>]

InitDefaults ==
    \E S \in {{}, DOMAIN Supplied} \cup {{k} : k \in DOMAIN Supplied},
       t \in {{}, CythonTree},
       ovr \in {NoOverrides, "foo" :> Override(TRUE, "binary_arch" :> "any", {}),
                "foo" :> Override(TRUE, "binary_arch" :> "all", {})} :
        /\ dpath = <<"p">>
        /\ tree = t
        /\ top = Top0
        /\ setup_cfg = NoSetupCfg
        /\ profile = NoProfile
        /\ overrides = ovr
        /\ templates = Templates0
        /\ Ready(NoKeys, [k \in S |-> Supplied[k]] @@ Ctx0Base)

\* what the generators find at the source root
Long == [i \in 1..(SummaryMax + 1) |-> "x"]

InitTops ==
    \E tp \in Tops, ints \in Interpreters, sm \in {<<"a">>, Long}, arch \in {"all", "any"} :
        /\ (sm = Long) = (arch = "any")
        /\ dpath = <<"p">>
        /\ tree = IF arch = "any" THEN {[dir |-> <<>>, name |-> N_C]} ELSE {}
        /\ top = tp
        /\ DefaultLayers
        /\ Ready(NoKeys, [Ctx0Base EXCEPT !.interpreters = ints, !.summary = sm])

Init ==
    \/ InitArtifacts
    \/ InitTrees
    \/ InitDescriptions
    \/ InitLayers
    \/ InitStatics
    \/ InitTops
    \/ InitSets
    \/ InitDefaults

Spec == Init /\ [][Next]_vars

\* ------------------------------------------------------------------ claims
\* the paths of the files debianize generates
IsOutputArtifact(p) ==
    \/ p \in {Artifact(dpath, n) :
                 n \in {"control", "rules", "changelog", "copyright", "watch", "clean"}}
    \/ EndsWith(p, <<".docs">>)
    \/ EndsWith(p, <<".examples">>)
    \/ EndsWith(p, <<".mail">>)

\* C1 (as the claim states it): whatever a generated file holds before a
\* run, it holds the same after the run.
C1_NonClobber ==
    \A p \in DOMAIN before :
        IsOutputArtifact(p) => p \in DOMAIN files /\ files[p] = before[p]

\* the paths listed in a clean file, in order
CleanEntries(content) ==
    SelectSeq([i \in DOMAIN ReadLines(content) |-> Strip(ReadLines(content)[i])],
              LAMBDA l : l # <<>>)

NoDuplicates(sq) == \A i, j \in DOMAIN sq : sq[i] = sq[j] => i = j

\* C2: a second or later run, of runs that reached their end and in which
\* dch exited 0 whenever it was called, ends with every file as the run
\* before left it, and after every run no path is listed twice in
\* debian/clean.
C2_Idempotent ==
    pc = "done" =>
        /\ (run >= 2 /\ helper.failures = 0 /\ aborted = NoAbort => files = before)
        /\ (Artifact(dpath, "clean") \in DOMAIN files =>
                NoDuplicates(CleanEntries(files[Artifact(dpath, "clean")])))

C2_Witness ==
    /\ pc = "done"
    /\ run >= 2
    /\ helper.failures = 0
    /\ ctx["clean_files"] # {}
    /\ Artifact(dpath, "clean") \in DOMAIN files
    /\ Len(CleanEntries(files[Artifact(dpath, "clean")])) >= 2


\* the data layers, as the run finds them; an absent layer holds no key
SetupCfgLayer ==
    IF setup_cfg.exists /\ setup_cfg.has_py2dsp THEN setup_cfg.py2dsp ELSE NoKeys

ProfileLayer ==
    IF profile.given /\ profile.is_file THEN profile.file_doc
    ELSE IF profile.given /\ profile.has_ctx THEN profile.ctx_json
    ELSE NoKeys

OverrideLayer ==
    IF "foo" \in DOMAIN overrides /\ overrides["foo"].has_ctx
    THEN overrides["foo"].ctx_json ELSE NoKeys

\* the keys the context builder itself writes
BuilderKeys ==
    {"exports", "build_depends", "creator", "maintainer", "debian_revision",
     "binary_arch", "clean_files"}

\* the value of key k in the highest layer that sets it
Winner(k) ==
    IF k \in DOMAIN OverrideLayer THEN OverrideLayer[k]
    ELSE IF k \in DOMAIN ProfileLayer THEN ProfileLayer[k]
    ELSE IF k \in DOMAIN SetupCfgLayer THEN SetupCfgLayer[k]
    ELSE ctx0[k]

\* what a generator sees of the merged value v of key k: the keys of
\* FORMAT_KEYS have their placeholders filled in after the merges
Seen(k, v) == IF k \in Range(FORMAT_KEYS) THEN Format(v, ctx) ELSE v

GeneratorSteps ==
    {"docs", "control", "rules", "changelog", "dch", "itp_mail", "copyright", "watch",
     "clean", "done"}

\* C3: after the merges every key of the caller's context and of the layers
\* holds the value of the highest layer that sets it, in the order caller <
\* setup.cfg < profile < per-package override, and no other key was added;
\* a key set by both the profile and the override reaches the generators
\* with the override's value.
C3_Precedence ==
    /\ pc = "format" =>
          /\ DOMAIN ctx \ BuilderKeys =
                (DOMAIN ctx0 \cup DOMAIN SetupCfgLayer \cup DOMAIN ProfileLayer
                 \cup DOMAIN OverrideLayer) \ BuilderKeys
          /\ \A k \in DOMAIN ctx \ BuilderKeys : ctx[k] = Winner(k)
    /\ pc \in GeneratorSteps =>
          \A k \in DOMAIN ProfileLayer \cap DOMAIN OverrideLayer :
              ctx[k] = Seen(k, OverrideLayer[k])

C3_Witness ==
    /\ pc = "control"
    /\ "K1" \in DOMAIN ctx0 \cap DOMAIN SetupCfgLayer \cap DOMAIN ProfileLayer
                \cap DOMAIN OverrideLayer
    /\ ctx["K1"] = "override"
    /\ "K2" \in DOMAIN ProfileLayer \ DOMAIN OverrideLayer
    /\ ctx["K2"] = ProfileLayer["K2"]

\* C4: a call of control, rules, copyright or watch that finds its target
\* file changes neither the context nor any file, and the generator's body
\* does not run.
C4_Gate ==
    [][\A name \in GateNames :
          pc = name /\ Artifact(dpath, name) \in DOMAIN files
          => ctx' = ctx /\ files' = files /\ invoked' = invoked]_vars

C4_Witness ==
    /\ pc = "done"
    /\ called \cap GateNames = GateNames
    /\ invoked = {"control"}
    /\ files[Artifact(dpath, "rules")] = HandEdited

\* C5: when the changelog the run finds names the target version or
\* UNRELEASED in its first line, the changelog generator leaves it as it
\* is, dch is not run, and no initial release is reported.
C5_ShortCircuit ==
    LET p == Artifact(dpath, "changelog")
    IN ("changelog" \in called /\ p \in DOMAIN before
        /\ (Contains(FirstLine(before[p]), ctx["version"])
            \/ Contains(FirstLine(before[p]), <<"UNRELEASED">>)))
       => /\ helper.calls = 0
          /\ pc # "dch"
          /\ files[p] = before[p]
          /\ ~initial_release
          /\ "itp_mail" \notin called

C5_Witness ==
    /\ pc = "done"
    /\ run = 1
    /\ Artifact(dpath, "changelog") \in DOMAIN before
    /\ Contains(FirstLine(before[Artifact(dpath, "changelog")]), <<"unstable">>)
    /\ Contains(FirstLine(before[Artifact(dpath, "changelog")]), ctx["version"])
    /\ "changelog" \in called
    /\ helper.calls = 0
    /\ files[Artifact(dpath, "changelog")] = before[Artifact(dpath, "changelog")]

\* C6 (as the claim states it): once dch has exited non-zero the run is in
\* error and none of itp_mail, copyright, watch and clean is reached.
C6_FailurePropagates ==
    (helper.calls > 0 /\ helper.returncode # 0)
    => /\ pc = "error"
       /\ called \cap {"itp_mail", "copyright", "watch", "clean"} = {}


\* the static subtrees in the order debianize copies them
StaticLayers ==
    << IF "foo" \in DOMAIN overrides THEN overrides["foo"].static ELSE {},
       templates,
       IF profile.given THEN profile.static ELSE {} >>

\* where the file e of a static subtree belongs in the debian directory
PlaceOf(e) == JoinAll(DebianDir(dpath), e.dir \o <<e.name>>)

\* the files of a static subtree that are to be copied
Copyable(layer) ==
    {e \in layer : ~EndsWith(e.name, <<".tpl">>) /\ ~EndsWith(e.name, <<".swp">>)}

\* the content of the first static subtree that has a file for path p
FirstLayerContent(p) ==
    LET i == CHOOSE i \in 1..3 :
                /\ \E e \in Copyable(StaticLayers[i]) : PlaceOf(e) = p
                /\ \A j \in 1..(i - 1) : \A e \in Copyable(StaticLayers[j]) : PlaceOf(e) # p
    IN (CHOOSE e \in Copyable(StaticLayers[i]) : PlaceOf(e) = p).content

\* C7: when the three static subtrees have been copied, the files are those
\* the run found, unchanged, and one file for each further path some subtree
\* has a copyable file for, holding the content of the first subtree (per-
\* package override, templates, profile) that has it; no .tpl or .swp file
\* was copied.
C7_StaticFiles ==
    pc = "docs" =>
        /\ DOMAIN files =
              DOMAIN before
              \cup {PlaceOf(e) : e \in UNION {Copyable(StaticLayers[i]) : i \in 1..3}}
        /\ \A p \in DOMAIN files :
              files[p] = IF p \in DOMAIN before THEN before[p] ELSE FirstLayerContent(p)

C7_Witness ==
    /\ pc = "docs"
    /\ run = 1
    /\ PlaceOf(Compat) \in DOMAIN before
    /\ \E e \in StaticLayers[1] : e.name = <<".", "format", ".swp">>
    /\ PlaceOf(SourceFormat) \notin DOMAIN before
    /\ files[PlaceOf(SourceFormat)] = StaticFile("override")
    /\ \E e \in StaticLayers[2] : PlaceOf(e) = PlaceOf(SourceFormat)
    /\ \E e \in StaticLayers[3] : PlaceOf(e) = PlaceOf(RulesFile)
    /\ files[PlaceOf(RulesFile)] = StaticFile("profile")

\* C8: when the context builder has run, binary_arch is "any" if some file
\* below the source root has a name ending in .pyx, .c or .cpp and "all" if
\* none has, whatever the caller supplied.
C8_Architecture ==
    pc = "setup_cfg" =>
        ctx["binary_arch"] =
            IF \E e \in tree :
                  \/ EndsWith(e.name, <<".", "p", "y", "x">>)
                  \/ EndsWith(e.name, <<".", "c">>)
                  \/ EndsWith(e.name, <<".", "c", "p", "p">>)
            THEN "any" ELSE "all"

C8_Witness ==
    /\ pc = "setup_cfg"
    /\ Has(ctx0, "binary_arch")
    /\ ctx0["binary_arch"] = "any"
    /\ tree = {[dir |-> << <<"s", ".", "c">> >>, name |-> M_PY]}
    /\ ctx["binary_arch"] = "all"

\* the path of the file name in directory dir, relative to the source root
RelPath(dir, name) == JoinAll(<<".">>, dir \o <<name>>)

\* the compiled siblings of the .pyx files of the tree
CythonSiblings ==
    {e \in tree :
        /\ \/ EndsWith(e.name, <<".", "c">>)
           \/ EndsWith(e.name, <<".", "c", "p", "p">>)
        /\ \E x \in tree :
              /\ x.dir = e.dir
              /\ EndsWith(x.name, <<".", "p", "y", "x">>)
              /\ \E ext \in {<<"c">>, <<"c", "p", "p">>} :
                    e.name = SubSeq(x.name, 1, Len(x.name) - 3) \o ext}

\* C9 (as the claim states it): the context builder adds to clean_files the
\* root-relative path of D/S.c (D/S.cpp) exactly when D holds both S.pyx and
\* S.c (S.cpp).
C9_CythonPairing ==
    pc = "setup_cfg" =>
        ctx["clean_files"] =
            Get(ctx0, "clean_files", {})
            \cup {RelPath(e.dir, e.name) : e \in CythonSiblings}

\* C10: in the long_desc control computes, a line of the description that
\* is empty or blank becomes the placeholder line " ." (the one-space
\* continuation prefix every line gets and a dot), and a line beginning
\* with "* " gets exactly one space more than that prefix before its
\* content, tabs expanded as in every line.
C10_Reflow ==
    ("control" \in invoked /\ ~Has(ctx0, "long_desc")) =>
        LET lines == Split(ctx["description"], "\n")
            out == Split(ctx["long_desc"], "\n")
        IN /\ Len(out) = Len(lines)
           /\ \A i \in DOMAIN lines :
                 /\ (\A j \in DOMAIN lines[i] : lines[i][j] \in {" ", "\t"})
                       => out[i] = <<" ", ".">>
                 /\ (Len(lines[i]) >= 2 /\ lines[i][1] = "*" /\ lines[i][2] = " ")
                       => out[i] = <<" ", " ">>
                                   \o StrReplace(lines[i], <<"\t">>, <<" ", " ", " ", " ">>)

C10_Witness ==
    /\ "control" \in invoked
    /\ ~Has(ctx0, "long_desc")
    /\ ctx["description"] = <<" ", "\t", "\n", "*", " ", "\t", "a">>
    /\ ctx["long_desc"] = <<" ", ".", "\n", " ", " ", "*", " ", " ", " ", " ", " ", "a">>

\* C11: in a run that goes on, itp_mail is called exactly when the changelog generator found no
\* debian/changelog and wrote a first entry, reporting an initial release:
\* the call follows that step and no other (not the short-circuit, not dch),
\* happens at most once in a run, finds the changelog written, and writes
\* the mail file only when there is none.
C11_NoticeTrigger ==
    [][pc' # "aborted" =>
       /\ pc = "changelog" =>
            /\ (pc' = "itp_mail") = (Artifact(dpath, "changelog") \notin DOMAIN files)
            /\ initial_release' = (Artifact(dpath, "changelog") \notin DOMAIN files)
       /\ pc' = "itp_mail" =>
            /\ pc = "changelog"
            /\ "itp_mail" \notin called
            /\ Artifact(dpath, "changelog") \in DOMAIN files'
            /\ files'[Artifact(dpath, "changelog")].kind = "text"
       /\ pc = "itp_mail" =>
            /\ initial_release
            /\ "itp_mail" \in called'
            /\ files' = IF MailPath(ctx) \in DOMAIN files THEN files
                        ELSE (MailPath(ctx) :> Rendered("itp.mail", ctx)) @@ files
       /\ ("itp_mail" \in called' /\ "itp_mail" \notin called) => pc = "itp_mail"
      ]_vars

C11_Witness ==
    /\ pc = "done"
    /\ run = 1
    /\ "itp_mail" \in called
    /\ Artifact(dpath, "changelog") \notin DOMAIN before
    /\ MailPath(ctx) \in DOMAIN before
    /\ files[MailPath(ctx)] = HandEdited

\* the artifacts C12 lists, among the files fs
ListedArtifacts(fs) ==
    {p \in DOMAIN fs :
        \/ p \in {Artifact(dpath, n) :
                     n \in {"control", "rules", "changelog", "copyright", "watch", "clean"}}
        \/ p = MailPath(ctx)}

\* the listed artifacts a run that is not cut short leaves, on the tree the
\* cut-short run had found
UninterruptedArtifacts ==
    ListedArtifacts(aborted.before)
    \cup {Artifact(dpath, n) : n \in {"control", "rules", "changelog", "copyright", "watch"}}
    \cup (IF Artifact(dpath, "changelog") \in DOMAIN aborted.before THEN {}
          ELSE {MailPath(ctx)})
    \cup (IF ctx["clean_files"] = {} THEN {} ELSE {Artifact(dpath, "clean")})

\* what the cut-short run wrote or rewrote
CompletedByAborted ==
    {p \in DOMAIN before :
        /\ IsOutputArtifact(p)
        /\ (p \in DOMAIN aborted.before => before[p] # aborted.before[p])}

\* C12 (as the claim states it): the run that follows a run cut short
\* between two generator steps leaves what that run completed as it is and
\* ends with the listed artifacts of a run that was not cut short.
C12_SafeRerun ==
    (pc = "done" /\ aborted # NoAbort) =>
        /\ \A p \in CompletedByAborted : files[p] = before[p]
        /\ ListedArtifacts(files) = UninterruptedArtifacts

\* C13 (as the claim states it): within a run build_depends and
\* clean_files are sets, and every step (the context builder, each layer
\* merge, each generator) leaves the old value of each a subset of the new.
C13_Monotone ==
    [][(pc \notin {"done", "aborted"}
        /\ Has(ctx, "build_depends") /\ Has(ctx, "clean_files")) =>
           /\ ~IsJsonList(ctx'["build_depends"])
           /\ ctx["build_depends"] \subseteq ctx'["build_depends"]
           /\ ctx["clean_files"] \subseteq ctx'["clean_files"]
      ]_vars

\* the implementations of the active interpreters
ActiveImpls == {INTERPRETER_MAP(i) : i \in Range(ctx["interpreters"])}

\* what guess_dependency yields for the entries of requires, per active
\* interpreter, the ones it raises on left out
DependsOfRequires ==
    {guess_dependency(x[1], x[2]) :
        x \in {y \in ActiveImpls \X Range(ctx["requires"]) : ~HelperRaises(y[1], y[2])}}
    \ {<<>>}

\* what parse_pydep yields for the requirement files at the source root
DependsOfFiles ==
    UNION {parse_pydep(x[1], x[2]) :
             x \in {y \in ActiveImpls \X top.reqfiles : ~ParseRaises(y[1], y[2])}}

\* C14 (as the claim states it): a run of control's body adds to
\* build_depends, besides the setuptools and interpreter packages, what
\* guess_dependency yields for the entries of requires when the context has
\* requires, and what parse_pydep yields for the requirement files when it
\* has not.
C14_Requires ==
    [][(pc = "control" /\ pc' = "rules" /\ ~Skips(dpath, "control", files)) =>
          ctx'["build_depends"] =
              ctx["build_depends"]
              \cup (IF Has(ctx, "requires") THEN DependsOfRequires ELSE DependsOfFiles)
              \cup setuptools_depends(top, ctx) \cup interpreter_depends(ctx)
      ]_vars

\* a helper raises while control scans the requirements
HelperRaised ==
    IF Has(ctx, "requires")
    THEN \E impl \in ActiveImpls :
            HelperRaises(impl, last_line(Split(ctx["description"], "\n")))
    ELSE \E y \in ActiveImpls \X top.reqfiles : ParseRaises(y[1], y[2])

\* C15: when guess_dependency or parse_pydep raises while control's body
\* runs on a context whose build_depends is a set, control goes on: the
\* interpreters and requirement files the helper does not raise on are
\* processed, what build_depends held is kept, debian/control is rendered
\* and the run moves on to rules; a run in which control's body ran is in
\* error only over a build_depends that is no set, and at its end rules,
\* changelog, copyright, watch and clean have been called.
C15_Recovered ==
    /\ [][(pc = "control" /\ pc' # "aborted" /\ ~Skips(dpath, "control", files)
           /\ HelperRaised /\ ~IsJsonList(ctx["build_depends"])) =>
             /\ pc' = "rules"
             /\ ctx["build_depends"] \subseteq ctx'["build_depends"]
             /\ ~Has(ctx, "requires") => DependsOfFiles \subseteq ctx'["build_depends"]
             /\ Artifact(dpath, "control") \in DOMAIN files'
             /\ files'[Artifact(dpath, "control")] = Rendered("control", ctx')
         ]_vars
    /\ []((pc = "error" /\ "control" \in invoked) => IsJsonList(ctx["build_depends"]))
    /\ []((pc = "done" /\ "control" \in invoked) =>
             {"rules", "changelog", "copyright", "watch", "clean"} \subseteq called)

C15_Witness ==
    /\ pc = "done"
    /\ "control" \in invoked
    /\ HelperRaised
    /\ ctx["interpreters"] = <<"python", "python3">>
    /\ <<"cpython3", ":", "c">> \in ctx["build_depends"]
    /\ <<"cpython2", ":", "c">> \notin ctx["build_depends"]
    /\ <<"cpython3", ":", "a">> \notin ctx["build_depends"]
    /\ files[Artifact(dpath, "control")].kind = "rendered"
    /\ {"rules", "changelog", "copyright", "watch", "clean"} \subseteq called

\* the entries of clean_files that no line of the clean file fs holds,
\* surrounding whitespace aside
NotListed(fs) ==
    LET p == Artifact(dpath, "clean")
        listed == IF p \in DOMAIN fs
                  THEN {Strip(fs[p].lines[i]) : i \in DOMAIN fs[p].lines} ELSE {}
    IN ctx["clean_files"] \ listed

\* C16: clean leaves every file as it is when no entry of clean_files is
\* new; otherwise it changes debian/clean only, keeps what the file held as
\* the beginning of what it holds, and adds one line for each new entry and
\* nothing else.
C16_AppendOnly ==
    [][(pc = "clean" /\ pc' = "done") =>
          LET p == Artifact(dpath, "clean")
              old == IF p \in DOMAIN files THEN files[p].lines ELSE << <<>> >>
          IN IF NotListed(files) = {} THEN files' = files
             ELSE /\ DOMAIN files' = DOMAIN files \cup {p}
                  /\ \A q \in DOMAIN files \ {p} : files'[q] = files[q]
                  /\ Len(files'[p].lines) = Len(old) + Cardinality(NotListed(files))
                  /\ SubSeq(files'[p].lines, 1, Len(old)) = old
                  /\ {files'[p].lines[i] : i \in (Len(old) + 1)..Len(files'[p].lines)}
                        = NotListed(files)
      ]_vars

C16_Witness ==
    /\ pc = "done"
    /\ run = 1
    /\ Artifact(dpath, "clean") \in DOMAIN before
    /\ before[Artifact(dpath, "clean")].lines = << <<"x">>, <<>> >>
    /\ files[Artifact(dpath, "clean")].lines
          = << <<"x">>, <<>>, <<".", "/", "m", ".", "c">> >>

\* the defaults of the context builder
BuilderDefaults ==
    [exports |-> NoKeys, build_depends |-> {}, clean_files |-> {},
     creator |-> SysMaintainer, maintainer |-> SysMaintainer,
     debian_revision |-> <<"0~pypi2deb">>]

\* C17 (as the claim states it): when the context builder has run, each
\* of exports, creator, maintainer and debian_revision holds the caller's
\* value if the caller supplied one and its default if not; build_depends
\* and clean_files hold the caller's entries (none by default) and what the
\* Cython sources of the tree add.
C17_DefaultsOnly ==
    pc = "setup_cfg" =>
        /\ \A k \in {"exports", "creator", "maintainer", "debian_revision"} :
              ctx[k] = IF Has(ctx0, k) THEN ctx0[k] ELSE BuilderDefaults[k]
        /\ \A k \in {"build_depends", "clean_files"} :
              /\ Get(ctx0, k, BuilderDefaults[k]) \subseteq ctx[k]
              /\ (\A e \in tree : ~EndsWith(e.name, <<".", "p", "y", "x">>))
                    => ctx[k] = Get(ctx0, k, BuilderDefaults[k])

\* rules scans for console scripts: setup.py is there, names
\* console_scripts, and more than one interpreter is active
ScansConsoleScripts ==
    /\ top.setup_py.exists
    /\ Len(ctx["interpreters"]) > 1
    /\ \E i \in DOMAIN top.setup_py.lines :
          Contains(top.setup_py.lines[i], <<"console_scripts">>)

\* the exports key that removes the executables of interpreter i
RemovalKey(i) == AfterInstallKey(VERSIONED_I_MAP(i))

\* C18 (as the claim states it): a run of the body of rules that scans for
\* console scripts adds to exports a removal entry for every active
\* interpreter but one, the primary, which keeps its executables; any
\* other run of the body leaves exports as it is.
C18_ConsoleScripts ==
    [][(pc = "rules" /\ pc' = "changelog" /\ ~Skips(dpath, "rules", files)) =>
          IF ScansConsoleScripts
          THEN \E primary \in Range(ctx["interpreters"]) :
                  /\ RemovalKey(primary) \notin DOMAIN ctx'["exports"]
                  /\ DOMAIN ctx'["exports"] =
                        DOMAIN ctx["exports"]
                        \cup {RemovalKey(i) : i \in Range(ctx["interpreters"]) \ {primary}}
                  /\ \A i \in Range(ctx["interpreters"]) \ {primary} :
                        ctx'["exports"][RemovalKey(i)] = "rm -rf {destdir}/usr/bin/"
          ELSE ctx'["exports"] = ctx["exports"]
      ]_vars

\* no layer sets binary_arch
NoLayerArch ==
    \A layer \in {SetupCfgLayer, ProfileLayer, OverrideLayer} : ~Has(layer, "binary_arch")

\* C19: a run of control's body adds, for each of python and python3 that
\* is active, <interpreter>-all-dev and not <interpreter>-all when
\* binary_arch is "any", and <interpreter>-all and not <interpreter>-all-dev
\* when it is "all"; for an inactive one it adds neither; and when no layer
\* sets binary_arch, it is "any" exactly when the tree holds a .c, .cpp or
\* .pyx file.
C19_DevDependency ==
    [][(pc = "control" /\ pc' = "rules" /\ ~Skips(dpath, "control", files)
        /\ ~IsJsonList(ctx["build_depends"])) =>
          /\ \A I \in {"python", "python3"} :
                LET dev == <<I, "-all", "-dev">>
                    plain == <<I, "-all">>
                    want == IF ctx["binary_arch"] = "any" THEN dev ELSE plain
                    other == IF ctx["binary_arch"] = "any" THEN plain ELSE dev
                IN IF I \in Range(ctx["interpreters"])
                   THEN /\ want \in ctx'["build_depends"]
                        /\ other \in ctx'["build_depends"] => other \in ctx["build_depends"]
                   ELSE \A x \in {dev, plain} :
                           x \in ctx'["build_depends"] => x \in ctx["build_depends"]
          /\ NoLayerArch =>
                (ctx["binary_arch"] = "any") =
                    (\E e \in tree : \/ EndsWith(e.name, <<".", "c">>)
                                     \/ EndsWith(e.name, <<".", "c", "p", "p">>)
                                     \/ EndsWith(e.name, <<".", "p", "y", "x">>))
      ]_vars

C19_Witness ==
    /\ pc = "rules"
    /\ "control" \in invoked
    /\ ctx["interpreters"] = <<"python", "python3">>
    /\ \E e \in tree : e.name = M_CPP
    /\ {<<"python", "-all", "-dev">>, <<"python3", "-all", "-dev">>}
          \subseteq ctx["build_depends"]
    /\ <<"python", "-all">> \notin ctx["build_depends"]
    /\ <<"python3", "-all">> \notin ctx["build_depends"]

\* C20: a run that reaches its end has debian/control, debian/rules,
\* debian/changelog, debian/copyright and debian/watch, and still has every
\* file it found.
C20_Completion ==
    pc = "done" =>
        /\ \A n \in {"control", "rules", "changelog", "copyright", "watch"} :
              Artifact(dpath, n) \in DOMAIN files
        /\ DOMAIN before \subseteq DOMAIN files

C20_Witness ==
    /\ pc = "done"
    /\ run = 1
    /\ helper.calls = 1
    /\ helper.returncode = 0
    /\ Artifact(dpath, "control") \in DOMAIN before
    /\ Artifact(dpath, "rules") \notin DOMAIN before
    /\ Artifact(dpath, "changelog") \in DOMAIN before
    /\ \A n \in {"control", "rules", "changelog", "copyright", "watch"} :
          Artifact(dpath, n) \in DOMAIN files

=============================================================================
